---- MODULE Spec2Model ----
(***************************************************************************)
(* A model of newznab_mock.py: the /api route of a mock Newznab indexer.   *)
(* Python strings are TLA+ strings (Len, SubSeq and \o act on them), a     *)
(* JSON object or the request's query arguments is a function from keys to *)
(* values whose DOMAIN holds the keys that are present, and a JSON value   *)
(* that may be a list or a scalar is tagged: [list |-> <<...>>] or         *)
(* [scalar |-> "..."].                                                     *)
(***************************************************************************)
EXTENDS Integers, Sequences, FiniteSets, TLC

VARIABLES config, disk, pc, args, response, called, threads

vars == <<config, disk, pc, args, response, called, threads>>

(***************************************************************************)
(* Bounds of the model.                                                    *)
(***************************************************************************)
MaxQueryLen == 4
MaxNum == 3
MaxCatLen == 2
MaxThreads == 2

(***************************************************************************)
(* Python built-ins used by the source.                                    *)
(***************************************************************************)
CharAt(s, i) == SubSeq(s, i, i)

UPPERCASE == "ABCDEFGHIJKLMNOPQRSTUVWXYZ"
LOWERCASE == "abcdefghijklmnopqrstuvwxyz"
DIGITS == "0123456789"
WHITESPACE == {" ", "\t", "\n", "\r"}

IndexIn(alphabet, c) ==
    IF \E i \in 1..Len(alphabet) : CharAt(alphabet, i) = c
    THEN CHOOSE i \in 1..Len(alphabet) : CharAt(alphabet, i) = c
    ELSE 0

\* str.lower(), one character
char_lower(c) ==
    IF IndexIn(UPPERCASE, c) > 0 THEN CharAt(LOWERCASE, IndexIn(UPPERCASE, c)) ELSE c

RECURSIVE str_lower(_)
str_lower(s) ==
    IF s = "" THEN "" ELSE char_lower(Head(s)) \o str_lower(Tail(s))

\* sub in s, for Python strings
str_contains(sub, s) ==
    \E i \in 1..(Len(s) - Len(sub) + 1) : SubSeq(s, i, i + Len(sub) - 1) = sub

str_startswith(s, prefix) ==
    Len(prefix) <= Len(s) /\ SubSeq(s, 1, Len(prefix)) = prefix

\* s.replace(old, new), old non-empty: leftmost non-overlapping occurrences
RECURSIVE str_replace(_, _, _)
str_replace(s, old, new) ==
    IF s = "" THEN ""
    ELSE IF str_startswith(s, old)
         THEN new \o str_replace(SubSeq(s, Len(old) + 1, Len(s)), old, new)
         ELSE Head(s) \o str_replace(Tail(s), old, new)

\* s.split(): runs of whitespace separate, empty pieces are dropped
RECURSIVE SplitWs(_, _)
SplitWs(s, cur) ==
    IF s = "" THEN (IF cur = "" THEN <<>> ELSE <<cur>>)
    ELSE IF Head(s) \in WHITESPACE
         THEN (IF cur = "" THEN <<>> ELSE <<cur>>) \o SplitWs(Tail(s), "")
         ELSE SplitWs(Tail(s), cur \o Head(s))

str_split(s) == SplitWs(s, "")

\* s.split(sep), sep one character: every separator cuts, empty pieces are kept
RECURSIVE SplitSep(_, _, _)
SplitSep(s, sep, cur) ==
    IF s = "" THEN <<cur>>
    ELSE IF Head(s) = sep
         THEN <<cur>> \o SplitSep(Tail(s), sep, "")
         ELSE SplitSep(Tail(s), sep, cur \o Head(s))

str_split_sep(s, sep) == SplitSep(s, sep, "")

RECURSIVE AllDigits(_)
AllDigits(s) ==
    s = "" \/ (IndexIn(DIGITS, Head(s)) > 0 /\ AllDigits(Tail(s)))

RECURSIVE DigitsValue(_, _)
DigitsValue(s, acc) ==
    IF s = "" THEN acc
    ELSE DigitsValue(Tail(s), 10 * acc + (IndexIn(DIGITS, Head(s)) - 1))

\* s.strip()
RECURSIVE str_strip(_)
str_strip(s) ==
    IF s = "" THEN ""
    ELSE IF Head(s) \in WHITESPACE THEN str_strip(Tail(s))
    ELSE IF CharAt(s, Len(s)) \in WHITESPACE THEN str_strip(SubSeq(s, 1, Len(s) - 1))
    ELSE s

\* int(s) raises ValueError unless s, stripped of surrounding whitespace, is an
\* optional sign and one or more decimal digits (digit separators "_" are not
\* modelled)
py_int_ok(s) ==
    LET t == str_strip(s)
        body == IF t # "" /\ Head(t) \in {"-", "+"} THEN Tail(t) ELSE t
    IN  body # "" /\ AllDigits(body)

py_int(s) ==
    LET t == str_strip(s)
    IN  IF Head(t) = "-" THEN 0 - DigitsValue(Tail(t), 0)
        ELSE IF Head(t) = "+" THEN DigitsValue(Tail(t), 0)
        ELSE DigitsValue(t, 0)

RECURSIVE NatStr(_)
NatStr(n) ==
    IF n < 10 THEN CharAt(DIGITS, n + 1)
    ELSE NatStr(n \div 10) \o CharAt(DIGITS, (n % 10) + 1)

\* str(n) for an integer
py_str(n) == IF n < 0 THEN "-" \o NatStr(0 - n) ELSE NatStr(n)

\* seq[start:stop]: negative indices count from the end, both are clamped
py_slice(seq, start, stop) ==
    LET n == Len(seq)
        Clamp(i) == IF i < 0 THEN (IF i + n < 0 THEN 0 ELSE i + n)
                    ELSE (IF i > n THEN n ELSE i)
    IN  SubSeq(seq, Clamp(start) + 1, Clamp(stop))

\* dict.get(key, default) and request.args.get(key, default)
Get(d, key, default) == IF key \in DOMAIN d THEN d[key] ELSE default

\* os.path.join(a, b)
path_join(a, b) ==
    IF str_startswith(b, "/") THEN b
    ELSE IF a = "" \/ CharAt(a, Len(a)) = "/" THEN a \o b
    ELSE a \o "/" \o b

(***************************************************************************)
(* The functions of newznab_mock.py.  cfg is the global config dictionary. *)
(***************************************************************************)

\* hashlib.md5(filename).hexdigest(), tabulated for the file names of the model
get_guid_from_filename(filename) ==
    CASE filename = ""      -> "d41d8cd98f00b204e9800998ecf8427e"
      [] filename = "a.nzb" -> "4fa7644819e4615f54d22958ab451402"
      [] filename = "b.nzb" -> "3795d48e7241d9d5ee1e18d55bc14a6d"
      [] filename = "c.nzb" -> "e3a6ffa44087fac0a3790b71211c8306"
      [] filename = "d.nzb" -> "70e8aff98b15d5d0c5608566bd3458d2"

get_category_name(category_id, cfg) ==
    Get(cfg.categories, category_id, "Category " \o category_id)

\* item.get("categories", []) made a list when it is a single value
categories_list(item) ==
    LET categories == Get(item, "categories", [list |-> <<>>])
    IN  IF "list" \in DOMAIN categories THEN categories.list
        ELSE <<categories.scalar>>

\* the list comprehension of get_named_categories
child_parents(categories) ==
    LET kids == SelectSeq(categories, LAMBDA i : py_int(i) % 1000 > 0)
    IN  [k \in 1..Len(kids) |-> py_str(1000 * (py_int(kids[k]) \div 1000))]

\* a faulty variant: the parent of every id is implied, a parent's own included
get_named_categories_noparent(categories, cfg) ==
    LET parents == {py_str(1000 * (py_int(categories[k]) \div 1000)) :
                        k \in 1..Len(categories)}
        kept == SelectSeq(categories, LAMBDA category : category \notin parents)
    IN  [k \in 1..Len(kept) |-> get_category_name(kept[k], cfg)]

get_named_categories(categories, cfg) ==
    LET parents == child_parents(categories)
        kept == SelectSeq(categories,
                          LAMBDA category :
                              \A k \in 1..Len(parents) : parents[k] # category)
    IN  [k \in 1..Len(kept) |-> get_category_name(kept[k], cfg)]

\* int(i) in get_named_categories raises ValueError on a non-numeric id
named_categories_raise(categories) ==
    \E k \in 1..Len(categories) : ~py_int_ok(categories[k])

\* a faulty variant: any non-empty key is accepted
verify_api_key_present(a, cfg) ==
    LET api_key == Get(a, "apikey", "")
    IN  IF api_key = "" THEN FALSE ELSE TRUE

\* request.args.get('apikey') is None when absent: None and "" are both falsy
verify_api_key(a, cfg) ==
    LET api_key == Get(a, "apikey", "")
    IN  IF api_key = "" \/ api_key # cfg.api_key THEN FALSE ELSE TRUE

error_response(code, message) ==
    [kind |-> "error", mimetype |-> "application/xml",
     code |-> py_str(code), description |-> message]

NEWZNAB_NS == "http://www.newznab.com/DTD/2010/feeds/attributes/"

newznab_attr(name, value) == [ns |-> NEWZNAB_NS, name |-> name, value |-> value]

\* a faulty variant: the newznab category attributes skip implied parents
build_item_xml_leaf_attrs(item, cfg) ==
    LET categories == categories_list(item)
        filename == Get(item, "filename", "")
        guid == get_guid_from_filename(filename)
        url == cfg.external_url \o "/api?t=get&id=" \o guid
                   \o "&apikey=" \o cfg.api_key
        parents == child_parents(categories)
        leaves == SelectSeq(categories,
                            LAMBDA category :
                                \A k \in 1..Len(parents) : parents[k] # category)
    IN  [title |-> Get(item, "title", "Unknown"),
         guid |-> cfg.external_url \o "/details/" \o guid,
         link |-> url,
         comments |-> cfg.external_url \o "/details/" \o guid,
         category |-> get_named_categories(categories, cfg),
         enclosure |-> [url |-> url, length |-> py_str(Get(item, "size", 0)),
                        type |-> "application/x-nzb"],
         attrs |-> [k \in 1..Len(leaves) |-> newznab_attr("category", leaves[k])]
                   \o <<newznab_attr("size", py_str(Get(item, "size", 0))),
                        newznab_attr("guid", guid),
                        newznab_attr("group", Get(item, "group", "alt.binaries"))>>]

\* the elements build_item_xml appends for one item, without pubDate (the
\* wall clock at the time of the request)
build_item_xml(item, cfg) ==
    LET categories == categories_list(item)
        filename == Get(item, "filename", "")
        guid == get_guid_from_filename(filename)
        url == cfg.external_url \o "/api?t=get&id=" \o guid
                   \o "&apikey=" \o cfg.api_key
    IN  [title |-> Get(item, "title", "Unknown"),
         guid |-> cfg.external_url \o "/details/" \o guid,
         link |-> url,
         comments |-> cfg.external_url \o "/details/" \o guid,
         category |-> get_named_categories(categories, cfg),
         enclosure |-> [url |-> url, length |-> py_str(Get(item, "size", 0)),
                        type |-> "application/x-nzb"],
         attrs |-> [k \in 1..Len(categories) |->
                        newznab_attr("category", categories[k])]
                   \o <<newznab_attr("size", py_str(Get(item, "size", 0))),
                        newznab_attr("guid", guid),
                        newznab_attr("group", Get(item, "group", "alt.binaries"))>>]

PUNCTUATION == {",", ".", "!", "?", ";", ":", "\"", "'", "-"}

\* re.sub(r'[,.!?;:"\'-]', ' ', query)
RECURSIVE re_sub_punctuation(_)
re_sub_punctuation(query) ==
    IF query = "" THEN ""
    ELSE (IF Head(query) \in PUNCTUATION THEN " " ELSE Head(query))
             \o re_sub_punctuation(Tail(query))

\* query_terms of handle_search
query_terms_of(query) ==
    IF query # ""
    THEN LET terms == str_split(re_sub_punctuation(query))
         IN  [k \in 1..Len(terms) |-> str_lower(terms[k])]
    ELSE <<>>

\* a faulty variant: one query term in the title is enough
item_matches_any_term(item, query_terms, cat) ==
    LET title == str_lower(Get(item, "title", ""))
        text_ok == query_terms # <<>> =>
                       \E k \in 1..Len(query_terms) : str_contains(query_terms[k], title)
        cat_list == str_split_sep(cat, ",")
        item_cats == categories_list(item)
        cat_ok == cat # "" =>
                      \E i \in 1..Len(item_cats) :
                          \E j \in 1..Len(cat_list) : item_cats[i] = cat_list[j]
    IN  text_ok /\ cat_ok

\* the body of the loop over config["nzbs_data"]: the value of match
item_matches(item, query_terms, cat) ==
    LET title == str_lower(Get(item, "title", ""))
        text_ok == query_terms # <<>> =>
                       \A k \in 1..Len(query_terms) : str_contains(query_terms[k], title)
        cat_list == str_split_sep(cat, ",")
        item_cats == categories_list(item)
        cat_ok == cat # "" =>
                      \E i \in 1..Len(item_cats) :
                          \E j \in 1..Len(cat_list) : item_cats[i] = cat_list[j]
    IN  text_ok /\ cat_ok

\* results of handle_search: the loop appends each matching item in turn
RECURSIVE search_results(_, _, _)
search_results(data, query_terms, cat) ==
    IF data = <<>> THEN <<>>
    ELSE (IF item_matches(Head(data), query_terms, cat) THEN <<Head(data)>> ELSE <<>>)
             \o search_results(Tail(data), query_terms, cat)

DEFAULT_LIMIT == 100
DEFAULT_OFFSET == 0

\* an uncaught exception in a view: Flask answers 500 Internal Server Error
server_fault(exception) == [kind |-> "fault", status |-> "500", exception |-> exception]

\* a faulty variant: total counts the page, not the matches
search_document_page_total(results, offset, limit, cfg) ==
    LET paginated_results == py_slice(results, offset, offset + limit)
    IN  [kind |-> "rss", mimetype |-> "application/xml",
         title |-> "Newznab Mock",
         link |-> cfg.external_url,
         webMaster |-> "admin@" \o str_replace(str_replace(cfg.external_url,
                                       "http://", ""), "https://", ""),
         offset |-> py_str(offset),
         total |-> py_str(Len(paginated_results)),
         items |-> [k \in 1..Len(paginated_results) |->
                        build_item_xml(paginated_results[k], cfg)]]

\* pagination and the XML document of handle_search
search_document(results, offset, limit, cfg) ==
    LET paginated_results == py_slice(results, offset, offset + limit)
    IN  [kind |-> "rss", mimetype |-> "application/xml",
         title |-> "Newznab Mock",
         link |-> cfg.external_url,
         webMaster |-> "admin@" \o str_replace(str_replace(cfg.external_url,
                                       "http://", ""), "https://", ""),
         offset |-> py_str(offset),
         total |-> py_str(Len(results)),
         items |-> [k \in 1..Len(paginated_results) |->
                        build_item_xml(paginated_results[k], cfg)]]

handle_search(a, cfg) ==
    LET query == Get(a, "q", "")
        cat == Get(a, "cat", "")
    IN  IF ("limit" \in DOMAIN a /\ ~py_int_ok(a["limit"]))
           \/ ("offset" \in DOMAIN a /\ ~py_int_ok(a["offset"]))
        THEN server_fault("ValueError")
        ELSE LET limit == IF "limit" \in DOMAIN a THEN py_int(a["limit"])
                          ELSE DEFAULT_LIMIT
                 offset == IF "offset" \in DOMAIN a THEN py_int(a["offset"])
                           ELSE DEFAULT_OFFSET
                 results == search_results(cfg.nzbs_data, query_terms_of(query), cat)
                 paginated_results == py_slice(results, offset, offset + limit)
             IN  IF \E k \in 1..Len(paginated_results) :
                        named_categories_raise(categories_list(paginated_results[k]))
                 THEN server_fault("ValueError")
                 ELSE search_document(results, offset, limit, cfg)

\* the scan of handle_get: <<>> is None, <<f>> the file name of the first match
RECURSIVE find_filename(_, _)
find_filename(data, nzb_id) ==
    IF data = <<>> THEN <<>>
    ELSE LET filename == Get(Head(data), "filename", "")
         IN  IF get_guid_from_filename(filename) = nzb_id THEN <<filename>>
             ELSE find_filename(Tail(data), nzb_id)

IO_ERROR == "[Errno 5] Input/output error"

\* dsk is the set of paths that are regular files; read_ok is whether open,
\* read and send_file succeed
handle_get(a, cfg, dsk, read_ok) ==
    LET nzb_id == Get(a, "id", "")
        found == find_filename(cfg.nzbs_data, nzb_id)
    IN  IF nzb_id = "" THEN error_response(200, "No NZB ID specified")
        ELSE IF found = <<>> \/ found[1] = ""
        THEN error_response(300, "NZB with ID " \o nzb_id \o " not found")
        ELSE LET nzb_filename == found[1]
                 nzb_path == path_join(cfg.nzb_path, nzb_filename)
             IN  IF nzb_path \notin dsk
                 THEN error_response(300, "NZB file " \o nzb_filename
                                              \o " not found on disk")
                 ELSE IF ~read_ok
                 THEN error_response(900, "Error reading NZB file: " \o IO_ERROR)
                 ELSE [kind |-> "file", path |-> nzb_path,
                       as_attachment |-> TRUE, download_name |-> nzb_filename,
                       mimetype |-> "application/x-nzb"]

\* a faulty variant: t=movie is not routed to the search handler
route_movie_unsupported(a, cfg) ==
    LET t == Get(a, "t", "")
    IN  IF ~verify_api_key(a, cfg) THEN "error_response"
        ELSE IF t = "search" \/ t = "tvsearch" THEN "handle_search"
        ELSE IF t = "get" THEN "handle_get"
        ELSE "error_response"

\* the branch api() takes
route(a, cfg) ==
    LET t == Get(a, "t", "")
    IN  IF ~verify_api_key(a, cfg) THEN "error_response"
        ELSE IF t = "search" \/ t = "tvsearch" \/ t = "movie" THEN "handle_search"
        ELSE IF t = "get" THEN "handle_get"
        ELSE "error_response"

api(a, cfg, dsk, read_ok) ==
    LET t == Get(a, "t", "")
    IN  IF ~verify_api_key(a, cfg) THEN error_response(100, "Invalid API key")
        ELSE IF route(a, cfg) = "handle_search" THEN handle_search(a, cfg)
        ELSE IF route(a, cfg) = "handle_get" THEN handle_get(a, cfg, dsk, read_ok)
        ELSE error_response(203, "Function not available: " \o t)

(***************************************************************************)
(* The configuration main() stores before the server starts, the files of  *)
(* the NZB directory, and the requests of the model.                       *)
(***************************************************************************)
API_KEY == "key"
NZB_PATH == "nzbs"
EXTERNAL_URL == "http://h:5000"

\* newznab_categories.csv as load_categories reads it
CATEGORY_MAP ==
    [c \in {"2000", "2010", "5000"} |->
        CASE c = "2000" -> "Movies" [] c = "2010" -> "Movies/Foreign" [] c = "5000" -> "TV"]

ItemA == [title |-> "Ab", filename |-> "a.nzb", size |-> 10, group |-> "alt.b",
          categories |-> [list |-> <<"2000", "2010">>]]
ItemB == [title |-> "b-a", filename |-> "b.nzb", size |-> 7,
          categories |-> [scalar |-> "5000"]]
ItemC == [title |-> "A a", filename |-> "c.nzb",
          categories |-> [list |-> <<"5070", "2010">>]]
ItemN == [size |-> 1]

Catalogs == {<<ItemA, ItemB, ItemC>>, <<ItemB, ItemN, ItemA>>}

ConfigOf(data) ==
    [api_key |-> API_KEY, nzb_path |-> NZB_PATH, nzbs_data |-> data,
     external_url |-> EXTERNAL_URL, categories |-> CATEGORY_MAP]

DiskFiles == {"nzbs/a.nzb", "nzbs/b.nzb"}

NoArgs == [k \in {} |-> ""]
NoResponse == [kind |-> "none"]

\* a query parameter that is absent or has one of the values
Opt(name, values) == {NoArgs} \cup {name :> v : v \in values}

RECURSIVE StringsOver(_, _)
StringsOver(chars, n) ==
    IF n = 0 THEN {""}
    ELSE LET shorter == StringsOver(chars, n - 1)
         IN  shorter \cup {s \o c : s \in shorter, c \in chars}

RECURSIVE CommaLists(_, _)
CommaLists(ids, n) ==
    IF n = 0 THEN {""}
    ELSE LET shorter == CommaLists(ids, n - 1)
         IN  shorter \cup ids \cup {s \o "," \o c : s \in shorter \ {""}, c \in ids}

Numbers == {py_str(n) : n \in 0..MaxNum}

Guids == {get_guid_from_filename(f) : f \in {"", "a.nzb", "d.nzb"}}

\* requests to /api for the router and the retrieval handler
Requests ==
    {k @@ t @@ q @@ c @@ l @@ o @@ i :
        k \in Opt("apikey", {API_KEY, "KEY"}),
        t \in Opt("t", {"", "search", "tvsearch", "movie", "get", "caps"}),
        q \in Opt("q", {"a-B"}),
        c \in Opt("cat", {"5000,20"}),
        l \in Opt("limit", {"2", "abc"}),
        o \in Opt("offset", {"1", ""}),
        i \in Opt("id", {""} \cup Guids)}

Init ==
    /\ config \in {ConfigOf(data) : data \in Catalogs}
    /\ disk = DiskFiles
    /\ pc = "idle"
    /\ args = NoArgs
    /\ response = NoResponse
    /\ called = ""
    /\ threads = <<>>

\* a GET /api request arrives
Receive(a) ==
    /\ pc = "idle"
    /\ pc' = "received"
    /\ args' = a
    /\ UNCHANGED <<config, disk, response, called, threads>>

\* the view function api() runs to its return
Api ==
    /\ pc = "received"
    /\ \E read_ok \in BOOLEAN :
           response' = api(args, config, disk, read_ok)
    /\ called' = route(args, config)
    /\ pc' = "responded"
    /\ UNCHANGED <<config, disk, args, threads>>

\* the response is sent and the request context is dropped
Send ==
    /\ pc = "responded"
    /\ pc' = "idle"
    /\ args' = NoArgs
    /\ response' = NoResponse
    /\ called' = ""
    /\ UNCHANGED <<config, disk, threads>>

\* a file of the NZB directory is deleted while the server runs
RemoveFile ==
    /\ \E f \in disk : disk' = disk \ {f}
    /\ UNCHANGED <<config, pc, args, response, called, threads>>

Next ==
    \/ \E a \in Requests : Receive(a)
    \/ Api
    \/ Send
    \/ RemoveFile

Spec == Init /\ [][Next]_vars

(***************************************************************************)
(* Properties of the router and the retrieval handler, under Spec.         *)
(***************************************************************************)
KeyAccepted == "apikey" \in DOMAIN args /\ args["apikey"] = config.api_key

\* C1: a request whose apikey is absent or differs from the configured key is
\* answered with error 100 "Invalid API key" whatever its other parameters,
\* and neither handle_search nor handle_get is entered.
C1_AuthGate ==
    (pc = "responded" /\ ~KeyAccepted) =>
        /\ response.kind = "error"
        /\ response.code = "100"
        /\ response.description = "Invalid API key"
        /\ called \notin {"handle_search", "handle_get"}

\* a wrong key on a search with a malformed limit and an id is rejected
C1_Witness ==
    /\ pc = "responded"
    /\ "apikey" \in DOMAIN args /\ args["apikey"] = "KEY"
    /\ Get(args, "t", "") = "search"
    /\ Get(args, "limit", "") = "abc"
    /\ "id" \in DOMAIN args
    /\ response.kind = "error" /\ response.code = "100"

\* C2: every request ends in a search document, a streamed file or one error
\* document with code 100, 200, 203, 300 or 900, never in a server fault.
C2_ThreeOutcomes ==
    pc = "responded" =>
        \/ response.kind \in {"rss", "file"}
        \/ /\ response.kind = "error"
           /\ response.code \in {"100", "200", "203", "300", "900"}

\* C3: with a valid key, search, tvsearch and movie run handle_search and
\* answer alike, get runs handle_get, and any other t (absent and empty
\* included) is answered with error 203 naming t.
C3_Dispatch ==
    (pc = "responded" /\ KeyAccepted) =>
        LET t == Get(args, "t", "")
        IN  /\ t \in {"search", "tvsearch", "movie"} =>
                /\ called = "handle_search"
                /\ \A u \in {"search", "tvsearch", "movie"} :
                       response = api(("t" :> u) @@ args, config, disk, TRUE)
            /\ t = "get" => called = "handle_get"
            /\ t \notin {"search", "tvsearch", "movie", "get"} =>
                /\ called = "error_response"
                /\ response.kind = "error"
                /\ response.code = "203"
                /\ response.description = "Function not available: " \o t

\* t=movie with a valid key is answered with a search document
C3_Witness ==
    /\ pc = "responded" /\ KeyAccepted
    /\ Get(args, "t", "") = "movie"
    /\ called = "handle_search"
    /\ response.kind = "rss"

\* the catalog entries whose identifier is nzb_id
EntriesWithId(nzb_id) ==
    {k \in 1..Len(config.nzbs_data) :
        get_guid_from_filename(Get(config.nzbs_data[k], "filename", "")) = nzb_id}

\* C4: handle_get answers by the first failing check: no id -> 200; no entry
\* with that identifier -> 300 "NZB with ID {id} not found"; the entry's file
\* not on disk -> 300 "NZB file {filename} not found on disk"; a failed read
\* -> 900; otherwise the entry's file is streamed under its own name.
C4_RetrievalOrder ==
    [][(pc = "received" /\ pc' = "responded" /\ called' = "handle_get") =>
          LET nzb_id == Get(args, "id", "")
          IN  IF nzb_id = ""
              THEN response' = error_response(200, "No NZB ID specified")
              ELSE IF EntriesWithId(nzb_id) = {}
              THEN response' = error_response(300,
                                   "NZB with ID " \o nzb_id \o " not found")
              ELSE LET k == CHOOSE k \in EntriesWithId(nzb_id) : TRUE
                       filename == Get(config.nzbs_data[k], "filename", "")
                   IN  IF path_join(config.nzb_path, filename) \notin disk
                       THEN response' = error_response(300,
                                "NZB file " \o filename \o " not found on disk")
                       ELSE \/ response'.kind = "error" /\ response'.code = "900"
                            \/ /\ response'.kind = "file"
                               /\ response'.download_name = filename
                               /\ response'.path = path_join(config.nzb_path, filename)]_vars

\* C5: the identifier of every catalog entry resolves, in handle_get, to that
\* entry and never to "not found"; the link of every item of a search
\* response carries the identifier of the entry it was rendered from.
C5_RoundTrip ==
    /\ (pc = "responded" /\ called = "handle_get"
            /\ EntriesWithId(Get(args, "id", "")) # {}) =>
           /\ ~(response.kind = "error" /\ response.description =
                    "NZB with ID " \o Get(args, "id", "") \o " not found")
           /\ response.kind = "file" =>
                  \E k \in EntriesWithId(args["id"]) :
                      response.download_name = config.nzbs_data[k].filename
    /\ (pc = "responded" /\ response.kind = "rss") =>
           \A n \in 1..Len(response.items) :
               \E k \in 1..Len(config.nzbs_data) :
                   /\ response.items[n].title = Get(config.nzbs_data[k], "title", "Unknown")
                   /\ response.items[n].link =
                          config.external_url \o "/api?t=get&id="
                              \o get_guid_from_filename(
                                     Get(config.nzbs_data[k], "filename", ""))
                              \o "&apikey=" \o config.api_key

(***************************************************************************)
(* Searches: every query over QueryChars and every category filter over    *)
(* CatIds up to the bounds, and every page of a few queries.               *)
(***************************************************************************)
QueryChars == {"a", "B", " ", "-"}
CatIds == {"2000", "5000", "12000"}

SearchRequests ==
    {("apikey" :> API_KEY) @@ ("t" :> "search") @@ q @@ c :
        q \in Opt("q", StringsOver(QueryChars, MaxQueryLen)),
        c \in Opt("cat", {"5000,2000"})}
    \cup
    {("apikey" :> API_KEY) @@ ("t" :> "search") @@ q @@ c :
        q \in Opt("q", {"a-B"}),
        c \in Opt("cat", CommaLists(CatIds, MaxCatLen))}
    \cup
    {("apikey" :> API_KEY) @@ ("t" :> "search") @@ q @@ l @@ o :
        q \in Opt("q", {"b", "ab"}),
        l \in Opt("limit", Numbers),
        o \in Opt("offset", Numbers)}

NextSearch ==
    \/ \E a \in SearchRequests : Receive(a)
    \/ Api
    \/ Send

SpecSearch == Init /\ [][NextSearch]_vars

Separators == PUNCTUATION \cup WHITESPACE

\* the maximal runs of s that hold no character of seps
Runs(s, seps) ==
    {SubSeq(s, p[1], p[2]) :
        p \in {r \in (1..Len(s)) \X (1..Len(s)) :
                  /\ r[1] <= r[2]
                  /\ \A n \in r[1]..r[2] : CharAt(s, n) \notin seps
                  /\ r[1] = 1 \/ CharAt(s, r[1] - 1) \in seps
                  /\ r[2] = Len(s) \/ CharAt(s, r[2] + 1) \in seps}}

\* the matching predicate of a search request on a catalog entry
Matches(item, a) ==
    LET title == str_lower(Get(item, "title", ""))
        tokens == {str_lower(r) : r \in Runs(Get(a, "q", ""), Separators)}
        requested == Runs(Get(a, "cat", ""), {","})
        own == IF "categories" \notin DOMAIN item THEN {}
               ELSE IF "list" \in DOMAIN item.categories
                    THEN {item.categories.list[k] :
                              k \in 1..Len(item.categories.list)}
                    ELSE {item.categories.scalar}
    IN  /\ tokens = {} \/ \A tok \in tokens : str_contains(tok, title)
        /\ Get(a, "cat", "") = "" \/ own \cap requested # {}

Matched(a) == SelectSeq(config.nzbs_data, LAMBDA item : Matches(item, a))

Unpaged == "limit" \notin DOMAIN args /\ "offset" \notin DOMAIN args

\* C6: the matched sequence is the catalog, in catalog order, filtered by:
\* (no query token, or every lower-cased token is a substring of the
\* lower-cased title) and (no cat, or one of the entry's ids is one of the
\* requested ids).
C6_QueryMatcher ==
    (pc = "responded" /\ response.kind = "rss") =>
        /\ response.total = py_str(Len(Matched(args)))
        /\ Unpaged =>
               response.items = [k \in 1..Len(Matched(args)) |->
                                    build_item_xml(Matched(args)[k], config)]

\* a two-token query with punctuation and a category filter that keeps some
\* entries and drops others
C6_Witness ==
    /\ pc = "responded" /\ response.kind = "rss"
    /\ Get(args, "q", "") = "a-B"
    /\ Get(args, "cat", "") = "12000,2000"
    /\ Len(response.items) = 1
    /\ Len(config.nzbs_data) = 3

Min(x, y) == IF x < y THEN x ELSE y
Max(x, y) == IF x > y THEN x ELSE y

\* C7: with non-negative offset and limit (defaults 0 and 100) the rendered
\* entries are M[offset .. offset+limit-1], min(limit, max(0, |M| - offset))
\* of them; total is |M| and offset echoes the request.
C7_Pagination ==
    (pc = "responded" /\ response.kind = "rss") =>
        LET M == Matched(args)
            offset == IF "offset" \in DOMAIN args THEN py_int(args["offset"]) ELSE 0
            limit == IF "limit" \in DOMAIN args THEN py_int(args["limit"]) ELSE 100
            n == Min(limit, Max(0, Len(M) - offset))
        IN  /\ Len(response.items) = n
            /\ \A k \in 1..n :
                   response.items[k] = build_item_xml(M[offset + k], config)
            /\ py_int(response.total) = Len(M)
            /\ response.offset = Get(args, "offset", "0")

\* an offset at the end of a non-empty matched sequence: no item, total kept
C7_Witness ==
    /\ pc = "responded" /\ response.kind = "rss"
    /\ Get(args, "offset", "") = "3" /\ Get(args, "limit", "") = "2"
    /\ "q" \notin DOMAIN args
    /\ response.items = <<>>
    /\ response.total = "3"

(***************************************************************************)
(* Item rendering: catalogs whose first entry has every category value     *)
(* over ItemCatIds up to the bound (a list, a scalar, or none).            *)
(***************************************************************************)
ItemCatIds == {"2000", "2010", "5000", "5070", "7"}

RECURSIVE SeqsOver(_, _)
SeqsOver(S, n) ==
    IF n = 0 THEN {<<>>}
    ELSE LET shorter == SeqsOver(S, n - 1)
         IN  shorter \cup {Append(q, x) : q \in shorter, x \in S}

ItemD == [title |-> "d", filename |-> "d.nzb", size |-> 3,
          categories |-> [list |-> <<"2010", "5070">>]]

FirstItems ==
    {[title |-> "x", filename |-> "a.nzb"]}
    \cup {[title |-> "x", filename |-> "a.nzb", categories |-> [list |-> l]] :
             l \in SeqsOver(ItemCatIds, MaxCatLen)}
    \cup {[title |-> "x", filename |-> "a.nzb", categories |-> [scalar |-> c]] :
             c \in ItemCatIds}

ItemCatalogs == {<<first, second>> : first \in FirstItems, second \in {ItemB, ItemD}}

ItemRequests ==
    {("apikey" :> API_KEY) @@ ("t" :> "search") @@ l @@ o :
        l \in Opt("limit", {"1"}), o \in Opt("offset", {"1"})}

InitItems ==
    /\ config \in {ConfigOf(data) : data \in ItemCatalogs}
    /\ disk = DiskFiles
    /\ pc = "idle"
    /\ args = NoArgs
    /\ response = NoResponse
    /\ called = ""
    /\ threads = <<>>

NextItems ==
    \/ \E a \in ItemRequests : Receive(a)
    \/ Api
    \/ Send

SpecItems == InitItems /\ [][NextItems]_vars

\* the catalog entry the n-th item of an unfiltered search response shows
EntryOfItem(n) ==
    config.nzbs_data[n + (IF "offset" \in DOMAIN args THEN py_int(args["offset"]) ELSE 0)]

\* the category ids of a catalog entry, a scalar being a one-element sequence
OwnIds(item) ==
    IF "categories" \notin DOMAIN item THEN <<>>
    ELSE IF "list" \in DOMAIN item.categories THEN item.categories.list
    ELSE <<item.categories.scalar>>

\* id is the parent of an id of ids that is not itself a parent
ImpliedParent(id, ids) ==
    \E j \in 1..Len(ids) :
        /\ py_int(ids[j]) % 1000 # 0
        /\ py_int(id) = 1000 * (py_int(ids[j]) \div 1000)

DisplayName(id) ==
    IF id \in DOMAIN config.categories THEN config.categories[id]
    ELSE "Category " \o id

\* C8: the display names of an item are, in input order, those of its ids
\* that are not the parent floor(id/1000)*1000 of an id of the same item with
\* a nonzero remainder modulo 1000; an id absent from the map is named
\* "Category {id}".
C8_CategoryResolver ==
    (pc = "responded" /\ response.kind = "rss") =>
        \A n \in 1..Len(response.items) :
            LET ids == OwnIds(EntryOfItem(n))
                kept == SelectSeq(ids, LAMBDA id : ~ImpliedParent(id, ids))
            IN  response.items[n].category =
                    [k \in 1..Len(kept) |-> DisplayName(kept[k])]

\* ["2000", "2010"] shows only the name of 2010
C8_Witness ==
    /\ pc = "responded" /\ response.kind = "rss"
    /\ Len(response.items) = 2
    /\ OwnIds(config.nzbs_data[1]) = <<"2000", "2010">>
    /\ response.items[1].category = <<"Movies/Foreign">>

CategoryAttrs(item_xml) ==
    LET found == SelectSeq(item_xml.attrs, LAMBDA x : x.name = "category")
    IN  [k \in 1..Len(found) |-> found[k].value]

\* C10: a search response has one item per entry of the page, in order; each
\* item has one newznab category attribute per raw id of its entry, all of
\* them in order, and its category elements are the resolver's output for
\* its own ids; a scalar categories value counts as a one-element sequence.
C10_ItemRendering ==
    (pc = "responded" /\ response.kind = "rss") =>
        LET offset == IF "offset" \in DOMAIN args THEN py_int(args["offset"]) ELSE 0
            limit == IF "limit" \in DOMAIN args THEN py_int(args["limit"]) ELSE 100
        IN  /\ Len(response.items) = Min(limit, Max(0, Len(config.nzbs_data) - offset))
            /\ \A n \in 1..Len(response.items) :
                   /\ response.items[n].title = EntryOfItem(n).title
                   /\ CategoryAttrs(response.items[n]) = OwnIds(EntryOfItem(n))
                   /\ response.items[n].category =
                          get_named_categories(OwnIds(EntryOfItem(n)), config)

\* an item with ids 2010, 2000 keeps both as attributes and shows one name
C10_Witness ==
    /\ pc = "responded" /\ response.kind = "rss"
    /\ Len(response.items) = 2
    /\ OwnIds(config.nzbs_data[1]) = <<"2010", "2000">>
    /\ OwnIds(config.nzbs_data[2]) = <<"2010", "5070">>
    /\ CategoryAttrs(response.items[1]) = <<"2010", "2000">>
    /\ response.items[1].category = <<"Movies/Foreign">>
    /\ response.items[2].category = <<"Movies/Foreign", "Category 5070">>

(***************************************************************************)
(* Concurrent requests: app.run serves each request in a thread of its     *)
(* own, and the threads interleave between the steps of api().             *)
(***************************************************************************)
Threads == 1..MaxThreads

IdleThread == [pc |-> "idle", args |-> NoArgs, nzb_filename |-> "",
               response |-> NoResponse]

ThreadRequests ==
    {("apikey" :> "KEY") @@ ("t" :> "search"),
     ("apikey" :> API_KEY) @@ ("t" :> "search") @@ ("q" :> "a-B"),
     ("apikey" :> API_KEY) @@ ("t" :> "movie") @@ ("limit" :> "abc"),
     ("apikey" :> API_KEY) @@ ("t" :> "caps"),
     ("apikey" :> API_KEY) @@ ("t" :> "get"),
     ("apikey" :> API_KEY) @@ ("t" :> "get") @@ ("id" :> get_guid_from_filename("a.nzb")),
     ("apikey" :> API_KEY) @@ ("t" :> "get") @@ ("id" :> get_guid_from_filename("c.nzb"))}

InitThreads ==
    /\ config \in {ConfigOf(data) : data \in Catalogs}
    /\ disk = DiskFiles
    /\ pc = "idle"
    /\ args = NoArgs
    /\ response = NoResponse
    /\ called = ""
    /\ threads = [i \in Threads |-> IdleThread]

Respond(i, r) ==
    threads' = [threads EXCEPT ![i].pc = "done", ![i].response = r]

Goto(i, label) == threads' = [threads EXCEPT ![i].pc = label]

Accept(i, a) ==
    /\ threads[i].pc = "idle"
    /\ threads' = [threads EXCEPT ![i].pc = "api", ![i].args = a]
    /\ UNCHANGED <<config, disk, pc, args, response, called>>

CheckKey(i) ==
    /\ threads[i].pc = "api"
    /\ IF ~verify_api_key(threads[i].args, config)
       THEN Respond(i, error_response(100, "Invalid API key"))
       ELSE Goto(i, "dispatch")
    /\ UNCHANGED <<config, disk, pc, args, response, called>>

Dispatch(i) ==
    /\ threads[i].pc = "dispatch"
    /\ LET t == Get(threads[i].args, "t", "")
       IN  IF t = "search" \/ t = "tvsearch" \/ t = "movie" THEN Goto(i, "handle_search")
           ELSE IF t = "get" THEN Goto(i, "handle_get")
           ELSE Respond(i, error_response(203, "Function not available: " \o t))
    /\ UNCHANGED <<config, disk, pc, args, response, called>>

\* a faulty variant: the filtered list is stored back into the configuration
SearchKeepingResults(i) ==
    /\ threads[i].pc = "handle_search"
    /\ Respond(i, handle_search(threads[i].args, config))
    /\ config' = [config EXCEPT !.nzbs_data =
                      search_results(config.nzbs_data,
                          query_terms_of(Get(threads[i].args, "q", "")),
                          Get(threads[i].args, "cat", ""))]
    /\ UNCHANGED <<disk, pc, args, response, called>>

Search(i) ==
    /\ threads[i].pc = "handle_search"
    /\ Respond(i, handle_search(threads[i].args, config))
    /\ UNCHANGED <<config, disk, pc, args, response, called>>

GetFind(i) ==
    /\ threads[i].pc = "handle_get"
    /\ LET nzb_id == Get(threads[i].args, "id", "")
           found == find_filename(config.nzbs_data, nzb_id)
       IN  IF nzb_id = "" THEN Respond(i, error_response(200, "No NZB ID specified"))
           ELSE IF found = <<>> \/ found[1] = ""
           THEN Respond(i, error_response(300, "NZB with ID " \o nzb_id \o " not found"))
           ELSE threads' = [threads EXCEPT ![i].pc = "isfile",
                                           ![i].nzb_filename = found[1]]
    /\ UNCHANGED <<config, disk, pc, args, response, called>>

GetIsFile(i) ==
    /\ threads[i].pc = "isfile"
    /\ IF path_join(config.nzb_path, threads[i].nzb_filename) \notin disk
       THEN Respond(i, error_response(300, "NZB file " \o threads[i].nzb_filename
                                               \o " not found on disk"))
       ELSE Goto(i, "read")
    /\ UNCHANGED <<config, disk, pc, args, response, called>>

GetRead(i) ==
    /\ threads[i].pc = "read"
    /\ \/ Respond(i, error_response(900, "Error reading NZB file: " \o IO_ERROR))
       \/ Respond(i, [kind |-> "file",
                      path |-> path_join(config.nzb_path, threads[i].nzb_filename),
                      as_attachment |-> TRUE,
                      download_name |-> threads[i].nzb_filename,
                      mimetype |-> "application/x-nzb"])
    /\ UNCHANGED <<config, disk, pc, args, response, called>>

Finish(i) ==
    /\ threads[i].pc = "done"
    /\ threads' = [threads EXCEPT ![i] = IdleThread]
    /\ UNCHANGED <<config, disk, pc, args, response, called>>

NextThreads ==
    \E i \in Threads :
        \/ \E a \in ThreadRequests : Accept(i, a)
        \/ CheckKey(i)
        \/ Dispatch(i)
        \/ Search(i)
        \/ GetFind(i)
        \/ GetIsFile(i)
        \/ GetRead(i)
        \/ Finish(i)

SpecThreads == InitThreads /\ [][NextThreads]_vars

\* C9: no request changes the configuration (api key, external URL, file
\* directory, catalog, category map), and under any interleaving each
\* response is the one the request gets when served alone against the same
\* catalog and disk.
C9_ReadOnly ==
    /\ [][config' = config]_vars
    /\ [](\A i \in Threads :
            threads[i].pc = "done" =>
                \E read_ok \in BOOLEAN :
                    threads[i].response = api(threads[i].args, config, disk, read_ok))

\* a search and a retrieval answered while both are in flight
C9_Witness ==
    /\ threads[1].pc = "done" /\ threads[1].response.kind = "rss"
    /\ Len(threads[1].response.items) < Len(config.nzbs_data)
    /\ threads[2].pc = "done" /\ threads[2].response.kind = "file"

====
